---- MODULE Spec2Model ----
(***************************************************************************)
(* A model of the two data generators of transit-its-analysis:             *)
(*   src/src/generate_baseline_data.py   ("easy mode")                     *)
(*   src/src/generate_realistic_data.py  ("hard mode", with confounders)   *)
(*                                                                         *)
(* Representation.                                                         *)
(*  - A datetime at midnight is its proleptic Gregorian ordinal, the       *)
(*    number Python's datetime keeps; a timedelta is a number of days.     *)
(*  - A ridership amount is an integer number of 1/Unit riders.  Unit is   *)
(*    a multiple of 100 (the trends have two decimals), of 10 (the 0.7     *)
(*    winter factor) and of 7 * ramp_weeks (the competitor ramp), so the   *)
(*    sums, products and quotients of the program are computed as exact    *)
(*    rationals; the rounding of each double operation on them (relative   *)
(*    size 2^-53) is not modelled.                                         *)
(*  - The sine bell peak * np.sin(progress * np.pi) is irrational, and     *)
(*    what it is at the ends of its window and how symmetric it is depend  *)
(*    on the rounding of np.pi and of np.sin.  It is therefore tabulated   *)
(*    from its IEEE-754 double evaluation, truncated to 18 decimals, as    *)
(*    three base-10^6 limbs: <<a, b, c>> is a * 10^-6 + b * 10^-12 +       *)
(*    c * 10^-18.  Two entries differ exactly when the doubles differ.     *)
(*  - days / 7 is a fraction [n, d], reduced to d = 1 when it is whole.    *)
(*  - The pseudo-random generator is a deterministic stream: its state is  *)
(*    the seed and the number of samples drawn so far.  The Mersenne       *)
(*    Twister's values are not modelled; the stream cycles through         *)
(*    NoiseLevels (standard-normal samples, in sigmas) and every phase of  *)
(*    the cycle is admitted as a seed state, so every row meets every      *)
(*    level.                                                               *)
(***************************************************************************)
EXTENDS Integers, Sequences, FiniteSets, TLC

VARIABLES
    script,     \* which script runs: "baseline", "realistic", or "functions"
    pc,         \* position in the script: "dates", "loop", "frame", "done"
    current_date, \* the cursor of the while loop that fills dates
    dates,      \* the weekly date grid
    r,          \* index into the routes of the outer loop (1-based)
    i,          \* enumerate() index of the inner loop over dates (0-based)
    rng,        \* np.random state: [seed, pos]
    data,       \* the list of row dicts (data / all_data)
    loc,        \* the local variables of the last loop iteration
    csv,        \* the rows written by to_csv, in file order
    fnDate,     \* argument of the confounder functions under FnSpec
    fnRoute,    \* argument of the confounder functions under FnSpec
    fnOut,      \* their results at (fnDate, fnRoute)
    fnPrev      \* their results at the previous date of the walk

vars ==
    <<script, pc, current_date, dates, r, i, rng, data, loc, csv,
      fnDate, fnRoute, fnOut, fnPrev>>

\* ------------------------------------------------------------------ bounds

\* The most negative standard-normal sample of the stream, in sigmas.
MaxSigma == 30

\* How many days past END_DATE the confounder functions are evaluated.
HorizonDays == 40

\* ------------------------------------------------------------------ numbers

Unit == 56 * 100

Abs(x) == IF x < 0 THEN -x ELSE x

Max(a, b) == IF b > a THEN b ELSE a

\* days / 7 and the like: a float that is whole exactly when d divides n.
Frac(n, d) == IF n % d = 0 THEN [n |-> n \div d, d |-> 1] ELSE [n |-> n, d |-> d]

\* Python's max(0, x).
FracMax0(q) == IF q.n > 0 THEN q ELSE [n |-> 0, d |-> 1]

\* Python's int(x): truncation toward zero.
IntTrunc(q) == IF q.n >= 0 THEN q.n \div q.d ELSE -((-q.n) \div q.d)

\* amount * q for an amount in 1/Unit riders (exact for the program's values).
MulFrac(amount, q) == (amount * q.n) \div q.d

\* Python's round(x, 1) of an amount in 1/Unit riders, in tenths of a rider:
\* to the nearest tenth, a tie to the even tenth.
Round1(x) ==
    LET tenth == Unit \div 10
        q == x \div tenth
        m == x % tenth
    IN  IF 2 * m < tenth THEN q
        ELSE IF 2 * m > tenth THEN q + 1
        ELSE IF q % 2 = 0 THEN q ELSE q + 1

\* ------------------------------------------------------------------ calendar

IsLeap(y) == (y % 4 = 0) /\ ((y % 100 # 0) \/ (y % 400 = 0))

DaysInMonth(y, m) ==
    IF m = 2 THEN (IF IsLeap(y) THEN 29 ELSE 28)
    ELSE IF m \in {4, 6, 9, 11} THEN 30 ELSE 31

DaysBeforeYear(y) ==
    (y - 1) * 365 + (y - 1) \div 4 - (y - 1) \div 100 + (y - 1) \div 400

RECURSIVE DaysBeforeMonth(_, _)
DaysBeforeMonth(y, m) ==
    IF m = 1 THEN 0 ELSE DaysBeforeMonth(y, m - 1) + DaysInMonth(y, m - 1)

\* datetime(y, m, d) at midnight, as its ordinal.
datetime(y, m, d) == DaysBeforeYear(y) + DaysBeforeMonth(y, m) + d

YearOf(n) ==
    CHOOSE y \in 2019..2026 : DaysBeforeYear(y) < n /\ n <= DaysBeforeYear(y + 1)

\* date.month
MonthOf(n) ==
    LET y == YearOf(n)
        k == n - DaysBeforeYear(y)
    IN  CHOOSE m \in 1..12 :
            DaysBeforeMonth(y, m) < k /\ k <= DaysBeforeMonth(y, m) + DaysInMonth(y, m)

\* timedelta(weeks=w), in days.
Weeks(w) == 7 * w

\* ------------------------------------------------------------------ parameters

START_DATE == datetime(2020, 1, 6)

END_DATE == datetime(2024, 12, 30)

INTERVENTION_DATE == datetime(2024, 1, 1)

\* Faulty variant of WhileCondition: `<` drops a date equal to END_DATE.
WhileConditionExclusive(date) == date < END_DATE

\* The condition of the while loop that fills dates.
WhileCondition(date) == date <= END_DATE

\* The loop order of both scripts: the routes list (baseline) and the
\* insertion order of route_params (realistic).
routes == <<"Downtown", "Suburban", "Cross-town">>

\* route_params of generate_baseline_data.py, amounts in 1/Unit riders.
BaselineParams(route) ==
    CASE route = "Downtown" ->
            [base_ridership |-> 500 * Unit, pre_trend |-> (245 * Unit) \div 100,
             treatment_effect |-> 300 * Unit, slope_change |-> 0,
             noise_std |-> 20 * Unit]
      [] route = "Suburban" ->
            [base_ridership |-> 400 * Unit, pre_trend |-> (167 * Unit) \div 100,
             treatment_effect |-> 200 * Unit, slope_change |-> 0,
             noise_std |-> 15 * Unit]
      [] route = "Cross-town" ->
            [base_ridership |-> 300 * Unit, pre_trend |-> (109 * Unit) \div 100,
             treatment_effect |-> 150 * Unit, slope_change |-> 0,
             noise_std |-> 12 * Unit]

\* route_params of generate_realistic_data.py, amounts in 1/Unit riders.
RealisticParams(route) ==
    CASE route = "Downtown" ->
            [baseline |-> 500 * Unit, pre_trend |-> (245 * Unit) \div 100,
             treatment_effect |-> 50 * Unit, slope_change |-> 0,
             noise_std |-> 60 * Unit, seasonality_amp |-> 80 * Unit]
      [] route = "Suburban" ->
            [baseline |-> 400 * Unit, pre_trend |-> (167 * Unit) \div 100,
             treatment_effect |-> 30 * Unit, slope_change |-> 0,
             noise_std |-> 45 * Unit, seasonality_amp |-> 60 * Unit]
      [] route = "Cross-town" ->
            [baseline |-> 300 * Unit, pre_trend |-> (109 * Unit) \div 100,
             treatment_effect |-> 15 * Unit, slope_change |-> 0,
             noise_std |-> 36 * Unit, seasonality_amp |-> 40 * Unit]

\* confounders: effects in riders, durations in weeks.
confounders ==
    [competitor_launch |->
        [date |-> datetime(2023, 7, 1),
         effect |-> [x \in {"Downtown", "Suburban", "Cross-town"} |->
                        CASE x = "Downtown" -> -15
                          [] x = "Suburban" -> -8
                          [] x = "Cross-town" -> -3],
         ramp_weeks |-> 8],
     gas_spike |->
        [date |-> datetime(2022, 3, 1),
         duration_weeks |-> 16,
         peak_effect |-> [x \in {"Downtown", "Suburban", "Cross-town"} |->
                        CASE x = "Downtown" -> 12
                          [] x = "Suburban" -> 18
                          [] x = "Cross-town" -> 10]],
     severe_winter |->
        [date |-> datetime(2023, 1, 1),
         duration_weeks |-> 8,
         effect |-> [x \in {"Downtown", "Suburban", "Cross-town"} |->
                        CASE x = "Downtown" -> -20
                          [] x = "Suburban" -> -25
                          [] x = "Cross-town" -> -15]]]

\* ------------------------------------------------------------------ confounders

\* Faulty variant of apply_competitor_effect: the ramp is never capped.
CompetitorUncapped(date, route_type) ==
    LET launch_date == confounders.competitor_launch.date
        weeks_since == Frac(date - launch_date, 7)
        ramp_weeks == confounders.competitor_launch.ramp_weeks
        max_effect == confounders.competitor_launch.effect[route_type] * Unit
    IN  IF date < launch_date THEN 0
        ELSE MulFrac(max_effect, Frac(weeks_since.n, weeks_since.d * ramp_weeks))

\* apply_competitor_effect: 0 before the launch, a linear ramp over ramp_weeks,
\* then the route's full effect.  In 1/Unit riders.
apply_competitor_effect(date, route_type) ==
    LET launch_date == confounders.competitor_launch.date
        weeks_since == Frac(date - launch_date, 7)
        ramp_weeks == confounders.competitor_launch.ramp_weeks
        max_effect == confounders.competitor_launch.effect[route_type] * Unit
    IN  IF date < launch_date THEN 0
        ELSE IF weeks_since.n <= ramp_weeks * weeks_since.d
             THEN MulFrac(max_effect, Frac(weeks_since.n, weeks_since.d * ramp_weeks))
             ELSE max_effect

\* peak_effect * np.sin(progress * np.pi) with progress = (days / 7) / 16, as the
\* IEEE-754 double the expression evaluates to (np.pi the double nearest to pi,
\* a correctly rounded sine), for days = 0..112, truncated to 18 decimals:
\* <<a, b, c>> is a * 10^-6 + b * 10^-12 + c * 10^-18.  One table per peak_effect
\* of the configuration (12, 18, 10), since the product is rounded too.
PeakSin12 ==
    <<
       <<0, 0, 0>>, <<336555, 75310, 427498>>, <<672845, 366846, 301473>>, <<1008606, 299150, 970553>>,
       <<1343573, 713239, 694322>>, <<1677484, 74425, 993565>>, <<2010074, 679656, 836948>>, <<2341083, 864193, 539199>>,
       <<2670251, 207475, 772936>>, <<2997317, 738006, 722187>>, <<3322026, 137098, 192499>>, <<3644120, 941315, 376782>>,
       <<3963348, 743462, 5163>>, <<4279458, 391947, 756012>>, <<4592201, 188381, 77159>>, <<4901331, 83231, 953655>>,
       <<5206604, 869410, 697666>>, <<5507782, 373610, 451642>>, <<5804626, 645262, 876749>>, <<6096904, 142958, 353034>>,
       <<6384384, 918184, 38859>>, <<6666842, 796235, 226131>>, <<6944055, 554157, 668730>>, <<7215805, 95580, 869910>>,
       <<7481877, 622304, 802244>>, <<7742063, 802505, 50773>>, <<7996158, 935424, 46987>>, <<8243963, 112418, 818184>>,
       <<8485281, 374238, 569540>>, <<8719923, 864408, 325897>>, <<8947705, 978597, 987552>>, <<9168448, 509859, 288719>>,
       <<9381977, 789616, 357199>>, <<9588125, 824298, 987964>>, <<9786730, 427511, 120211>>, <<9977635, 347630, 542383>>,
       <<10160690, 390739, 409494>>, <<10335751, 538788, 906955>>, <<10502681, 62905, 43773>>, <<10661347, 631746, 467712>>,
       <<10811626, 414829, 30196>>, <<10953399, 180735, 827300>>, <<11086554, 390135, 439973>>, <<11210987, 283535, 198244>>,
       <<11326599, 963700, 410000>>, <<11433301, 472674, 756382>>, <<11531007, 863341, 194763>>, <<11619642, 265467, 136965>>,
       <<11699134, 946181, 883876>>, <<11769423, 364838, 765166>>, <<11830452, 222218, 831082>>, <<11882173, 504037, 346845>>,
       <<11924546, 518718, 910803>>, <<11957537, 929411, 429900>>, <<11981121, 780213, 799254>>, <<11995279, 516596, 633939>>,
       <<12000000, 0, 0>>, <<11995279, 516596, 633939>>, <<11981121, 780213, 799254>>, <<11957537, 929411, 429900>>,
       <<11924546, 518718, 910803>>, <<11882173, 504037, 346845>>, <<11830452, 222218, 831082>>, <<11769423, 364838, 765166>>,
       <<11699134, 946181, 883876>>, <<11619642, 265467, 136965>>, <<11531007, 863341, 194763>>, <<11433301, 472674, 756382>>,
       <<11326599, 963700, 411777>>, <<11210987, 283535, 200020>>, <<11086554, 390135, 439973>>, <<10953399, 180735, 827300>>,
       <<10811626, 414829, 30196>>, <<10661347, 631746, 467712>>, <<10502681, 62905, 43773>>, <<10335751, 538788, 908732>>,
       <<10160690, 390739, 411270>>, <<9977635, 347630, 545936>>, <<9786730, 427511, 121988>>, <<9588125, 824298, 987964>>,
       <<9381977, 789616, 358975>>, <<9168448, 509859, 292272>>, <<8947705, 978597, 987552>>, <<8719923, 864408, 324121>>,
       <<8485281, 374238, 571316>>, <<8243963, 112418, 821737>>, <<7996158, 935424, 48763>>, <<7742063, 802505, 49885>>,
       <<7481877, 622304, 803132>>, <<7215805, 95580, 872574>>, <<6944055, 554157, 669618>>, <<6666842, 796235, 226131>>,
       <<6384384, 918184, 39747>>, <<6096904, 142958, 351258>>, <<5804626, 645262, 878525>>, <<5507782, 373610, 455195>>,
       <<5206604, 869410, 698555>>, <<4901331, 83231, 951879>>, <<4592201, 188381, 78935>>, <<4279458, 391947, 759565>>,
       <<3963348, 743462, 6495>>, <<3644120, 941315, 375450>>, <<3322026, 137098, 193387>>, <<2997317, 738006, 726184>>,
       <<2670251, 207475, 773824>>, <<2341083, 864193, 543195>>, <<2010074, 679656, 838281>>, <<1677484, 74425, 992677>>,
       <<1343573, 713239, 695877>>, <<1008606, 299150, 974550>>, <<672845, 366846, 302916>>, <<336555, 75310, 426277>>,
       <<0, 0, 1469>>
    >>

PeakSin18 ==
    <<
       <<0, 0, 0>>, <<504832, 612965, 641303>>, <<1009268, 50269, 452210>>, <<1512909, 448726, 455829>>,
       <<2015360, 569859, 541595>>, <<2516226, 111638, 990126>>, <<3015112, 19485, 255423>>, <<3511625, 796290, 308354>>,
       <<4005376, 811213, 658960>>, <<4495976, 607010, 82837>>, <<4983039, 205647, 288305>>, <<5466181, 411973, 65173>>,
       <<5945023, 115193, 7967>>, <<6419187, 587921, 634019>>, <<6888301, 782571, 615738>>, <<7351996, 624847, 930483>>,
       <<7809907, 304116, 46056>>, <<8261673, 560415, 676575>>, <<8706939, 967894, 316012>>, <<9145356, 214437, 530439>>,
       <<9576577, 377276, 57845>>, <<10000264, 194352, 839197>>, <<10416083, 331236, 503539>>, <<10823707, 643371, 305309>>,
       <<11222816, 433457, 202478>>, <<11613095, 703757, 576160>>, <<11994238, 403136, 69592>>, <<12365944, 668628, 229052>>,
       <<12727922, 61357, 855199>>, <<13079885, 796612, 487069>>, <<13421558, 967896, 981329>>, <<13752672, 764788, 934856>>,
       <<14072966, 684424, 535799>>, <<14382188, 736448, 481947>>, <<14680095, 641266, 680317>>, <<14966453, 21445, 813575>>,
       <<15241035, 586109, 113353>>, <<15503627, 308183, 361321>>, <<15754021, 594357, 565660>>, <<15992021, 447619, 700680>>,
       <<16217439, 622243, 546182>>, <<16430098, 771103, 740062>>, <<16629831, 585203, 159960>>, <<16816480, 925302, 798254>>,
       <<16989899, 945550, 615001>>, <<17149952, 209012, 134574>>, <<17296511, 795011, 792145>>, <<17429463, 398200, 706336>>,
       <<17548702, 419272, 824926>>, <<17654135, 47258, 147750>>, <<17745678, 333328, 246623>>, <<17823260, 256056, 20267>>,
       <<17886819, 778078, 365317>>, <<17936306, 894117, 144850>>, <<17971682, 670320, 699770>>, <<17992919, 274894, 951797>>,
       <<18000000, 0, 0>>, <<17992919, 274894, 951797>>, <<17971682, 670320, 699770>>, <<17936306, 894117, 144850>>,
       <<17886819, 778078, 365317>>, <<17823260, 256056, 20267>>, <<17745678, 333328, 246623>>, <<17654135, 47258, 147750>>,
       <<17548702, 419272, 824926>>, <<17429463, 398200, 706336>>, <<17296511, 795011, 792145>>, <<17149952, 209012, 134574>>,
       <<16989899, 945550, 618554>>, <<16816480, 925302, 798254>>, <<16629831, 585203, 159960>>, <<16430098, 771103, 740062>>,
       <<16217439, 622243, 546182>>, <<15992021, 447619, 700680>>, <<15754021, 594357, 565660>>, <<15503627, 308183, 363098>>,
       <<15241035, 586109, 116906>>, <<14966453, 21445, 818905>>, <<14680095, 641266, 682093>>, <<14382188, 736448, 480170>>,
       <<14072966, 684424, 539351>>, <<13752672, 764788, 938408>>, <<13421558, 967896, 983105>>, <<13079885, 796612, 485293>>,
       <<12727922, 61357, 856975>>, <<12365944, 668628, 232605>>, <<11994238, 403136, 73145>>, <<11613095, 703757, 574383>>,
       <<11222816, 433457, 204254>>, <<10823707, 643371, 308861>>, <<10416083, 331236, 505316>>, <<10000264, 194352, 839197>>,
       <<9576577, 377276, 59621>>, <<9145356, 214437, 526887>>, <<8706939, 967894, 317788>>, <<8261673, 560415, 683681>>,
       <<7809907, 304116, 47832>>, <<7351996, 624847, 927819>>, <<6888301, 782571, 618403>>, <<6419187, 587921, 640236>>,
       <<5945023, 115193, 9743>>, <<5466181, 411973, 63397>>, <<4983039, 205647, 290081>>, <<4495976, 607010, 89054>>,
       <<4005376, 811213, 660737>>, <<3511625, 796290, 315015>>, <<3015112, 19485, 257199>>, <<2516226, 111638, 988793>>,
       <<2015360, 569859, 543815>>, <<1512909, 448726, 462047>>, <<1009268, 50269, 454430>>, <<504832, 612965, 639415>>,
       <<0, 0, 2204>>
    >>

PeakSin10 ==
    <<
       <<0, 0, 0>>, <<280462, 562758, 689581>>, <<560704, 472371, 917894>>, <<840505, 249292, 475387>>,
       <<1119644, 761033, 78639>>, <<1397903, 395354, 994637>>, <<1675062, 233047, 364124>>, <<1950903, 220161, 282369>>,
       <<2225209, 339563, 143817>>, <<2497764, 781672, 268341>>, <<2768355, 114248, 493453>>, <<3036767, 451096, 147318>>,
       <<3302790, 619551, 671191>>, <<3566215, 326623, 130010>>, <<3826834, 323650, 897928>>, <<4084442, 569359, 961083>>,
       <<4338837, 391175, 581537>>, <<4589818, 644675, 376368>>, <<4837188, 871052, 397587>>, <<5080753, 452465, 294195>>,
       <<5320320, 765153, 365272>>, <<5555702, 330196, 21776>>, <<5786712, 961798, 57719>>, <<6013170, 912984, 58702>>,
       <<6234898, 18587, 334611>>, <<6451719, 835420, 876236>>, <<6663465, 779520, 39156>>, <<6869969, 260349, 16337>>,
       <<7071067, 811865, 474617>>, <<7266603, 220340, 270397>>, <<7456421, 648831, 655701>>, <<7640373, 758216, 75117>>,
       <<7818314, 824680, 298258>>, <<7990104, 853582, 490562>>, <<8155608, 689592, 600768>>, <<8314696, 123025, 452578>>,
       <<8467241, 992282, 840357>>, <<8613126, 282324, 88833>>, <<8752234, 219087, 537070>>, <<8884456, 359788, 723389>>,
       <<9009688, 679024, 192126>>, <<9127832, 650613, 189713>>, <<9238795, 325112, 867828>>, <<9342489, 402945, 998833>>,
       <<9438833, 303083, 676184>>, <<9527751, 227228, 963060>>, <<9609173, 219450, 994452>>, <<9683035, 221222, 613841>>,
       <<9749279, 121818, 236859>>, <<9807852, 804032, 304305>>, <<9858710, 185182, 358642>>, <<9901811, 253364, 455112>>,
       <<9937122, 98932, 425373>>, <<9964614, 941176, 192175>>, <<9984268, 150178, 166933>>, <<9996066, 263830, 527987>>,
       <<10000000, 0, 0>>, <<9996066, 263830, 527987>>, <<9984268, 150178, 166933>>, <<9964614, 941176, 192175>>,
       <<9937122, 98932, 425373>>, <<9901811, 253364, 456888>>, <<9858710, 185182, 358642>>, <<9807852, 804032, 304305>>,
       <<9749279, 121818, 236859>>, <<9683035, 221222, 613841>>, <<9609173, 219450, 996228>>, <<9527751, 227228, 963060>>,
       <<9438833, 303083, 676184>>, <<9342489, 402945, 998833>>, <<9238795, 325112, 867828>>, <<9127832, 650613, 189713>>,
       <<9009688, 679024, 192126>>, <<8884456, 359788, 723389>>, <<8752234, 219087, 537070>>, <<8613126, 282324, 90610>>,
       <<8467241, 992282, 842133>>, <<8314696, 123025, 454355>>, <<8155608, 689592, 600768>>, <<7990104, 853582, 488786>>,
       <<7818314, 824680, 299146>>, <<7640373, 758216, 76893>>, <<7456421, 648831, 657478>>, <<7266603, 220340, 269508>>,
       <<7071067, 811865, 475505>>, <<6869969, 260349, 18114>>, <<6663465, 779520, 40044>>, <<6451719, 835420, 874460>>,
       <<6234898, 18587, 335499>>, <<6013170, 912984, 60478>>, <<5786712, 961798, 58607>>, <<5555702, 330196, 21776>>,
       <<5320320, 765153, 367048>>, <<5080753, 452465, 293307>>, <<4837188, 871052, 398475>>, <<4589818, 644675, 379921>>,
       <<4338837, 391175, 582425>>, <<4084442, 569359, 960195>>, <<3826834, 323650, 898816>>, <<3566215, 326623, 133563>>,
       <<3302790, 619551, 672079>>, <<3036767, 451096, 146430>>, <<2768355, 114248, 494786>>, <<2497764, 781672, 271894>>,
       <<2225209, 339563, 145150>>, <<1950903, 220161, 286144>>, <<1675062, 233047, 365234>>, <<1397903, 395354, 993749>>,
       <<1119644, 761033, 79749>>, <<840505, 249292, 478939>>, <<560704, 472371, 919115>>, <<280462, 562758, 688582>>,
       <<0, 0, 1224>>
    >>

PeakSin(peak_effect, days) ==
    CASE peak_effect = 12 -> PeakSin12[days + 1]
      [] peak_effect = 18 -> PeakSin18[days + 1]
      [] peak_effect = 10 -> PeakSin10[days + 1]

\* Faulty variant of apply_gas_spike_effect: the duration is taken as days, not weeks.
GasSpikeDurationInDays(date, route_type) ==
    LET spike_start == confounders.gas_spike.date
        duration == confounders.gas_spike.duration_weeks
        spike_end == spike_start + duration
        peak_effect == confounders.gas_spike.peak_effect[route_type]
    IN  IF date < spike_start \/ date > spike_end THEN <<0, 0, 0>>
        ELSE PeakSin(peak_effect, date - spike_start)

\* apply_gas_spike_effect: 0 outside [spike_start, spike_end], the sine bell
\* inside.  In limbs of 10^-18 riders.
apply_gas_spike_effect(date, route_type) ==
    LET spike_start == confounders.gas_spike.date
        duration == confounders.gas_spike.duration_weeks
        spike_end == spike_start + Weeks(duration)
        peak_effect == confounders.gas_spike.peak_effect[route_type]
    IN  IF date < spike_start \/ date > spike_end THEN <<0, 0, 0>>
        ELSE PeakSin(peak_effect, date - spike_start)

\* A limb amount in 1/Unit riders, rounded down (Unit / 10^6 = 7 / 1250).
LimbsToUnits(v) == (v[1] * (Unit \div 800)) \div 1250

\* Faulty variant of apply_severe_winter_effect: the duration is taken as days, not weeks.
SevereWinterDurationInDays(date, route_type) ==
    LET winter_start == confounders.severe_winter.date
        duration == confounders.severe_winter.duration_weeks
        winter_end == winter_start + duration
    IN  IF date < winter_start \/ date > winter_end THEN 0
        ELSE confounders.severe_winter.effect[route_type] * Unit

\* apply_severe_winter_effect: the route's flat effect inside
\* [winter_start, winter_end], 0 outside.  In 1/Unit riders.
apply_severe_winter_effect(date, route_type) ==
    LET winter_start == confounders.severe_winter.date
        duration == confounders.severe_winter.duration_weeks
        winter_end == winter_start + Weeks(duration)
    IN  IF date < winter_start \/ date > winter_end THEN 0
        ELSE confounders.severe_winter.effect[route_type] * Unit

\* ------------------------------------------------------------------ np.random

\* The standard-normal samples the stream cycles through, in sigmas.
NoiseLevels == <<-MaxSigma, -5, -1, 0, 1, 5>>

\* np.random.seed: the stream restarts at the seed's phase.
np_random_seed(s) == [seed |-> s, pos |-> 0]

\* Faulty variant of np_random_normal: each call consumes two samples of the stream.
NormalConsumesTwo(g, mean, std) ==
    [sample |-> mean + std * NoiseLevels[((g.seed + g.pos) % Len(NoiseLevels)) + 1],
     rng |-> [g EXCEPT !.pos = @ + 2]]

\* np.random.normal(mean, std): one sample, and the state after it.
np_random_normal(g, mean, std) ==
    [sample |-> mean + std * NoiseLevels[((g.seed + g.pos) % Len(NoiseLevels)) + 1],
     rng |-> [g EXCEPT !.pos = @ + 1]]

\* ------------------------------------------------------------------ row synthesis

\* Faulty variant of post_intervention: `>` for `>=`.
PostInterventionStrict(date) == IF date > INTERVENTION_DATE THEN 1 ELSE 0

\* post_intervention = 1 if date >= intervention_date else 0
post_intervention(date) == IF date >= INTERVENTION_DATE THEN 1 ELSE 0

\* Faulty variant of time_since_intervention: the max(0, ...) is missing.
TimeSinceUnclamped(date) == Frac(date - INTERVENTION_DATE, 7)

\* baseline: max(0, (date - intervention_date).days / 7)
time_since_intervention(date) == FracMax0(Frac(date - INTERVENTION_DATE, 7))

\* realistic: max(0, (date - INTERVENTION_DATE).days / 7) if post_intervention else 0
weeks_since_intervention(date, post) ==
    IF post # 0 THEN FracMax0(Frac(date - INTERVENTION_DATE, 7)) ELSE [n |-> 0, d |-> 1]

\* baseline: the two seasonal ifs, applied to the running ridership.
BaselineSeasonality(month, ridership) ==
    LET summer == IF month \in {6, 7, 8} THEN ridership - 30 * Unit ELSE ridership
    IN  IF month \in {12, 1} THEN summer - 20 * Unit ELSE summer

\* Faulty variant of BaselineTreatment: the `if post_intervention:` guard is missing.
TreatmentUnguarded(params, post, tsi, ridership) ==
    ridership + params.treatment_effect + MulFrac(params.slope_change, tsi)

\* baseline: the treatment block guarded by `if post_intervention:`.
BaselineTreatment(params, post, tsi, ridership) ==
    IF post # 0
    THEN ridership + params.treatment_effect + MulFrac(params.slope_change, tsi)
    ELSE ridership

\* Faulty variant of BaselineExpected: the trend starts from 0, not from base_ridership.
ExpectedWithoutBase(route, time, date) ==
    LET params == BaselineParams(route)
        post == post_intervention(date)
        tsi == time_since_intervention(date)
        trend == params.pre_trend * time
        seasoned == BaselineSeasonality(MonthOf(date), trend)
        treated == BaselineTreatment(params, post, tsi, seasoned)
    IN  [trend |-> trend, seasoned |-> seasoned, treated |-> treated,
         post |-> post, tsi |-> tsi]

\* baseline: the body of the inner loop up to the noise draw; the running
\* value of `ridership` after each block.
BaselineExpected(route, time, date) ==
    LET params == BaselineParams(route)
        post == post_intervention(date)
        tsi == time_since_intervention(date)
        trend == params.base_ridership + params.pre_trend * time
        seasoned == BaselineSeasonality(MonthOf(date), trend)
        treated == BaselineTreatment(params, post, tsi, seasoned)
    IN  [trend |-> trend, seasoned |-> seasoned, treated |-> treated,
         post |-> post, tsi |-> tsi]

\* realistic: the seasonality if/elif/else.
RealisticSeasonality(month, params) ==
    IF month \in {6, 7, 8} THEN -params.seasonality_amp
    ELSE IF month \in {12, 1, 2} THEN -((params.seasonality_amp * 7) \div 10)
    ELSE 0

\* realistic: the body of the inner loop up to `expected`.
RealisticExpected(route, time, date) ==
    LET params == RealisticParams(route)
        post == post_intervention(date)
        wsi == weeks_since_intervention(date, post)
        base_ridership == params.baseline + params.pre_trend * time
        treatment == params.treatment_effect * post
        slope_change == MulFrac(params.slope_change, wsi)
        seasonality == RealisticSeasonality(MonthOf(date), params)
        competitor == apply_competitor_effect(date, route)
        gas_effect == LimbsToUnits(apply_gas_spike_effect(date, route))
        winter_effect == apply_severe_winter_effect(date, route)
    IN  [base_ridership |-> base_ridership, treatment |-> treatment,
         slope_change |-> slope_change, seasonality |-> seasonality,
         competitor |-> competitor, gas_effect |-> gas_effect,
         winter_effect |-> winter_effect, post |-> post, wsi |-> wsi,
         expected |-> base_ridership + treatment + slope_change + seasonality
                      + competitor + gas_effect + winter_effect]

\* Faulty variant of ClampNonNegative: the clamp is missing.
Unclamped(actual) == actual

\* realistic: actual = max(0, actual)
ClampNonNegative(actual) == Max(0, actual)

\* The locals of one iteration that the properties read, in one shape for both
\* scripts: undisturbed is the value before the treatment terms, added the
\* treatment terms, expected the noise-free value, actual the value rounded.
Locals(route, time, date, undisturbed, added, expected, noise, actual) ==
    [set |-> TRUE, route |-> route, time |-> time, date |-> date,
     undisturbed |-> undisturbed, added |-> added, expected |-> expected,
     noise |-> noise, actual |-> actual]

NoLocals == [Locals("Downtown", 0, 0, 0, 0, 0, 0, 0) EXCEPT !.set = FALSE]

\* The loop headers: the next (r, i), or the end of both loops.
Advance ==
    IF i + 1 < Len(dates)
    THEN r' = r /\ i' = i + 1 /\ pc' = "loop"
    ELSE IF r < Len(routes)
         THEN r' = r + 1 /\ i' = 0 /\ pc' = "loop"
         ELSE r' = r /\ i' = i /\ pc' = "frame"

\* df.sort_values(['route_type', 'date']): strings compare by code point.
RouteRank(route) ==
    CASE route = "Cross-town" -> 1
      [] route = "Downtown" -> 2
      [] route = "Suburban" -> 3

RowLess(a, b) ==
    \/ RouteRank(a.route_type) < RouteRank(b.route_type)
    \/ a.route_type = b.route_type /\ a.date < b.date

\* The rows in ascending order of (route_type, date).
sort_values(rows) == SortSeq(rows, RowLess)

\* ------------------------------------------------------------------ the scripts

Scripts == {"baseline", "realistic"}

NoResult ==
    [called |-> FALSE, date |-> 0, competitor |-> 0, gas |-> <<0, 0, 0>>, winter |-> 0]

\* The state after the seed is set and the time parameters are assigned: the
\* date grid is still empty, no row yet.
Init ==
    /\ script \in Scripts
    /\ pc = "dates"
    /\ current_date = START_DATE
    /\ dates = <<>>
    /\ r = 1
    /\ i = 0
    /\ rng \in {np_random_seed(s) : s \in 0..(Len(NoiseLevels) - 1)}
    /\ data = <<>>
    /\ loc = NoLocals
    /\ csv = <<>>
    /\ fnDate = 0
    /\ fnRoute = "Downtown"
    /\ fnOut = NoResult
    /\ fnPrev = NoResult

\* Both scripts: one test of the while loop that fills dates, with its body
\* when the test passes.
GenerateDates ==
    /\ pc = "dates"
    /\ IF WhileCondition(current_date)
       THEN /\ dates' = Append(dates, current_date)
            /\ current_date' = current_date + 7
            /\ pc' = "dates"
       ELSE /\ pc' = "loop"
            /\ UNCHANGED <<dates, current_date>>
    /\ UNCHANGED <<script, r, i, rng, data, loc, csv, fnDate, fnRoute, fnOut, fnPrev>>

\* generate_baseline_data.py: one iteration of the inner loop.
BaselineRow ==
    /\ script = "baseline"
    /\ pc = "loop"
    /\ LET route == routes[r]
           date == dates[i + 1]
           time == i
           e == BaselineExpected(route, time, date)
           draw == np_random_normal(rng, 0, BaselineParams(route).noise_std)
           ridership == e.treated + draw.sample
           row == [date |-> date,
                   route_type |-> route,
                   avg_ridership |-> Round1(ridership),
                   post_intervention |-> e.post,
                   time |-> time,
                   time_since_intervention |-> [n |-> IntTrunc(e.tsi), d |-> 1]]
       IN  /\ data' = Append(data, row)
           /\ rng' = draw.rng
           /\ loc' = Locals(route, time, date, e.seasoned, e.treated - e.seasoned,
                            e.treated, draw.sample, row.avg_ridership)
    /\ Advance
    /\ UNCHANGED <<script, current_date, dates, csv, fnDate, fnRoute, fnOut, fnPrev>>

\* generate_baseline_data.py: DataFrame, sort_values, to_csv.
BaselineSave ==
    /\ script = "baseline"
    /\ pc = "frame"
    /\ csv' = sort_values(data)
    /\ pc' = "done"
    /\ UNCHANGED <<script, current_date, dates, r, i, rng, data, loc, fnDate, fnRoute, fnOut, fnPrev>>

\* generate_realistic_data: one iteration of the inner loop.
RealisticRow ==
    /\ script = "realistic"
    /\ pc = "loop"
    /\ LET route == routes[r]
           date == dates[i + 1]
           e == RealisticExpected(route, i, date)
           draw == np_random_normal(rng, 0, RealisticParams(route).noise_std)
           actual == ClampNonNegative(e.expected + draw.sample)
           row == [date |-> date,
                   route_type |-> route,
                   avg_ridership |-> Round1(actual),
                   post_intervention |-> e.post,
                   time_since_intervention |-> e.wsi]
       IN  /\ data' = Append(data, row)
           /\ rng' = draw.rng
           /\ loc' = Locals(route, i, date,
                            e.expected - e.treatment - e.slope_change,
                            e.treatment + e.slope_change,
                            e.expected, draw.sample, row.avg_ridership)
    /\ Advance
    /\ UNCHANGED <<script, current_date, dates, csv, fnDate, fnRoute, fnOut, fnPrev>>

\* generate_realistic_data.py: DataFrame, to_csv (no sort).
RealisticSave ==
    /\ script = "realistic"
    /\ pc = "frame"
    /\ csv' = data
    /\ pc' = "done"
    /\ UNCHANGED <<script, current_date, dates, r, i, rng, data, loc, fnDate, fnRoute, fnOut, fnPrev>>

Next == GenerateDates \/ BaselineRow \/ BaselineSave \/ RealisticRow \/ RealisticSave

Spec == Init /\ [][Next]_vars

\* ------------------------------------------------------------------ the functions alone

FnFirst == START_DATE

FnLast == END_DATE + HorizonDays

Confound(date, route) ==
    [called |-> TRUE, date |-> date,
     competitor |-> apply_competitor_effect(date, route),
     gas |-> apply_gas_spike_effect(date, route),
     winter |-> apply_severe_winter_effect(date, route)]

\* Any date of the range and any route; nothing called yet.
FnInit ==
    /\ script = "functions"
    /\ pc = "done"
    /\ current_date = START_DATE
    /\ dates = <<>>
    /\ r = 1
    /\ i = 0
    /\ rng = np_random_seed(0)
    /\ data = <<>>
    /\ loc = NoLocals
    /\ csv = <<>>
    /\ fnDate \in FnFirst..FnLast
    /\ fnRoute \in {routes[k] : k \in 1..Len(routes)}
    /\ fnOut = NoResult
    /\ fnPrev = NoResult

\* The three functions are called at (fnDate, fnRoute).
FnCall ==
    /\ ~fnOut.called
    /\ fnOut' = Confound(fnDate, fnRoute)
    /\ UNCHANGED <<script, pc, current_date, dates, r, i, rng, data, loc, csv, fnDate, fnRoute,
                   fnPrev>>

\* They are called again at the next day.
FnCallNextDay ==
    /\ fnOut.called
    /\ fnDate < FnLast
    /\ fnDate' = fnDate + 1
    /\ fnPrev' = fnOut
    /\ fnOut' = Confound(fnDate + 1, fnRoute)
    /\ UNCHANGED <<script, pc, current_date, dates, r, i, rng, data, loc, csv, fnRoute>>

FnNext == FnCall \/ FnCallNextDay

FnSpec == FnInit /\ [][FnNext]_vars

\* ------------------------------------------------------------------ properties

\* The weekly grid as the specification states it: 2020-01-06, every 7 days,
\* up to and including 2024-12-30.
GridCount == ((datetime(2024, 12, 30) - datetime(2020, 1, 6)) \div 7) + 1

GridDate(j) == datetime(2020, 1, 6) + 7 * (j - 1)

InterventionDay == datetime(2024, 1, 1)

RowsOf(rows, route) == SelectSeq(rows, LAMBDA x : x.route_type = route)

RouteSet == {routes[k] : k \in 1..Len(routes)}

\* C1: in the realistic generator every emitted row has avg_ridership >= 0,
\* whatever the noise sample: the value is clamped to a minimum of 0 after the
\* noise is added and before it is rounded to one decimal.
C1_RealisticNonNegative ==
    script = "realistic" =>
        /\ \A k \in 1..Len(data) : data[k].avg_ridership >= 0
        /\ \A k \in 1..Len(csv) : csv[k].avg_ridership >= 0
        /\ loc.set =>
              /\ loc.actual = Round1(Max(0, loc.expected + loc.noise))
              /\ data[Len(data)].avg_ridership = loc.actual

\* A realistic row whose noisy value was negative and that was emitted as 0.
C1_Witness ==
    /\ script = "realistic"
    /\ loc.set
    /\ loc.expected + loc.noise < 0
    /\ data[Len(data)].avg_ridership = 0

\* C2: in both generators post_intervention is 0 on every row dated strictly
\* before 2024-01-01 and 1 on every row dated on or after it; the row dated on
\* the intervention date has flag 1, and within a route the flag never goes
\* back from 1 to 0 as dates increase.
C2_PostInterventionFlag ==
    LET Flagged(rows) ==
            /\ \A k \in 1..Len(rows) :
                  rows[k].post_intervention =
                      IF rows[k].date < InterventionDay THEN 0 ELSE 1
            /\ \A k \in 2..Len(rows) :
                  rows[k - 1].route_type = rows[k].route_type =>
                      /\ rows[k - 1].date < rows[k].date
                      /\ rows[k - 1].post_intervention <= rows[k].post_intervention
    IN  /\ Flagged(data)
        /\ Flagged(csv)
        /\ pc = "done" =>
              \A route \in RouteSet :
                  \E k \in 1..Len(csv) :
                      /\ csv[k].route_type = route
                      /\ csv[k].date = InterventionDay
                      /\ csv[k].post_intervention = 1

\* The file holds the row of the intervention date with flag 1, right after a
\* row of the same route with flag 0.
C2_Witness ==
    /\ pc = "done"
    /\ \E k \in 2..Len(csv) :
          /\ csv[k].date = InterventionDay
          /\ csv[k].post_intervention = 1
          /\ csv[k - 1].route_type = csv[k].route_type
          /\ csv[k - 1].post_intervention = 0

\* C3: in both generators time_since_intervention is a non-negative whole
\* number of weeks: 0 on every row with post_intervention = 0, 0 on the row of
\* the intervention date, and on every later row the number of 7-day steps from
\* the intervention date, so it grows by exactly 1 per weekly row.
C3_TimeSinceIntervention ==
    LET Whole(rows) ==
            \A k \in 1..Len(rows) :
                LET t == rows[k].time_since_intervention
                    days == rows[k].date - InterventionDay
                IN  /\ t.d = 1
                    /\ t.n >= 0
                    /\ rows[k].post_intervention = 0 => t.n = 0
                    /\ days = 0 => t.n = 0
                    /\ days > 0 => 7 * t.n = days
        Steps(rows) ==
            \A k \in 2..Len(rows) :
                (/\ rows[k - 1].route_type = rows[k].route_type
                 /\ rows[k - 1].date >= InterventionDay) =>
                    rows[k].time_since_intervention.n =
                        rows[k - 1].time_since_intervention.n + 1
    IN  Whole(data) /\ Steps(data) /\ Whole(csv) /\ Steps(csv)

\* The file holds a row before the intervention with 0 and the last row of a
\* route, 52 weeks after the intervention, with 52.
C3_Witness ==
    /\ pc = "done"
    /\ \E j \in 1..Len(csv) :
          /\ csv[j].date < InterventionDay
          /\ csv[j].time_since_intervention = [n |-> 0, d |-> 1]
    /\ \E k \in 1..Len(csv) :
          /\ csv[k].date = datetime(2024, 12, 30)
          /\ csv[k].time_since_intervention = [n |-> 52, d |-> 1]

\* C4: for every route the generator emits exactly one row per date of the
\* weekly grid (2020-01-06, 7-day steps, up to and including 2024-12-30), and
\* in the baseline generator the time values of a route's rows in date order
\* are exactly 0, 1, ..., n-1, n being the number of grid dates.
C4_OneRowPerGridDate ==
    /\ pc # "dates" =>
          /\ Len(dates) = GridCount
          /\ \A j \in 1..Len(dates) : dates[j] = GridDate(j)
    /\ \A k \in 1..Len(data) :
          /\ data[k].date = GridDate(((k - 1) % GridCount) + 1)
          /\ data[k].route_type = routes[((k - 1) \div GridCount) + 1]
    /\ pc = "done" =>
          /\ Len(csv) = Len(routes) * GridCount
          /\ \A route \in RouteSet :
                LET rows == RowsOf(csv, route)
                IN  /\ Len(rows) = GridCount
                    /\ \A j \in 1..Len(rows) :
                          /\ rows[j].date = GridDate(j)
                          /\ script = "baseline" => rows[j].time = j - 1

\* The baseline file is complete: all rows, sorted by route name, the last one
\* dated on the end date with the last time index.
C4_Witness ==
    /\ pc = "done"
    /\ script = "baseline"
    /\ Len(csv) = 3 * GridCount
    /\ csv[1].route_type = "Cross-town"
    /\ csv[Len(csv)].route_type = "Suburban"
    /\ csv[Len(csv)].date = datetime(2024, 12, 30)
    /\ csv[Len(csv)].time = GridCount - 1

\* C5: in both generators the noise-free expected value of a row is raised by
\* the intervention exactly when the row's date is on or after the intervention
\* date: the added amount is then treatment_effect + slope_change * weeks since
\* the intervention (treatment_effect alone on the intervention date), and it is
\* 0 on every earlier row, whose expected value is base level + weekly trend *
\* time index + seasonal offset (plus the confounder terms in the realistic
\* generator) only.
C5_TreatmentAddedFromIntervention ==
    loc.set =>
        LET p == IF script = "baseline" THEN BaselineParams(loc.route)
                 ELSE RealisticParams(loc.route)
            base == IF script = "baseline" THEN p.base_ridership ELSE p.baseline
            days == loc.date - InterventionDay
            seasonal ==
                IF script = "baseline"
                THEN BaselineSeasonality(MonthOf(loc.date), 0)
                ELSE RealisticSeasonality(MonthOf(loc.date), p)
            confounded ==
                IF script = "baseline" THEN 0
                ELSE apply_competitor_effect(loc.date, loc.route)
                     + LimbsToUnits(apply_gas_spike_effect(loc.date, loc.route))
                     + apply_severe_winter_effect(loc.date, loc.route)
        IN  /\ loc.undisturbed = base + p.pre_trend * loc.time + seasonal + confounded
            /\ loc.expected = loc.undisturbed + loc.added
            /\ days < 0 => loc.added = 0
            /\ days = 0 => loc.added = p.treatment_effect
            /\ days >= 0 =>
                  7 * loc.added = 7 * p.treatment_effect + p.slope_change * days

\* The row of the intervention date of the baseline Downtown route: raised by
\* its treatment effect of 300, the row before it by nothing.
C5_Witness ==
    /\ script = "baseline"
    /\ loc.set
    /\ loc.route = "Downtown"
    /\ loc.date = InterventionDay
    /\ loc.added = 300 * Unit
    /\ loc.expected = loc.undisturbed + 300 * Unit

\* C9: each script is deterministic given its seed: every row consumes exactly
\* one noise sample, in a fixed order (routes in their configured order, dates
\* ascending within a route), so the k-th row emitted is the row of the k-th
\* position of that order computed from the k-th sample of the seed's stream,
\* and nothing else enters a value.
C9_OneSamplePerRowInOrder ==
    /\ rng.pos = Len(data)
    /\ loc.set <=> Len(data) > 0
    /\ \A k \in 1..Len(data) :
          /\ data[k].route_type = routes[((k - 1) \div Len(dates)) + 1]
          /\ data[k].date = dates[((k - 1) % Len(dates)) + 1]
    /\ loc.set =>
          LET k == Len(data)
              std == IF script = "baseline" THEN BaselineParams(loc.route).noise_std
                     ELSE RealisticParams(loc.route).noise_std
              sample == NoiseLevels[((rng.seed + k - 1) % Len(NoiseLevels)) + 1]
              noisy == loc.expected + std * sample
          IN  /\ loc.route = data[k].route_type
              /\ loc.date = data[k].date
              /\ loc.noise = std * sample
              /\ data[k].avg_ridership =
                    Round1(IF script = "realistic" THEN Max(0, noisy) ELSE noisy)
    /\ pc = "done" =>
          /\ Len(csv) = Len(data)
          /\ script = "realistic" => csv = data
          /\ script = "baseline" =>
                csv = RowsOf(data, "Cross-town") \o RowsOf(data, "Downtown")
                      \o RowsOf(data, "Suburban")

\* The last row of a run: the 783rd sample went into the 783rd row, the row of
\* the last route on the end date.
C9_Witness ==
    /\ pc = "done"
    /\ rng.pos = 3 * GridCount
    /\ Len(csv) = 3 * GridCount
    /\ loc.route = "Cross-town"
    /\ loc.date = datetime(2024, 12, 30)
    /\ loc.noise # 0

\* C10: in the baseline generator, which does not clamp, avg_ridership is still
\* >= 0 on every row whose noise sample is within 5 * noise_std of the route:
\* the noise-free expected value is at least that large on every grid date.
C10_BaselineNonNegative ==
    (script = "baseline" /\ loc.set) =>
        LET std == BaselineParams(loc.route).noise_std
        IN  /\ loc.expected >= 5 * std
            /\ Abs(loc.noise) <= 5 * std =>
                  /\ loc.actual >= 0
                  /\ data[Len(data)].avg_ridership = loc.actual

\* The lowest expected value of the baseline: the first Cross-town row (January,
\* time 0, 280 riders); with a sample of -5 standard deviations it is emitted
\* as 220.0.
C10_Witness ==
    /\ script = "baseline"
    /\ loc.set
    /\ loc.route = "Cross-town"
    /\ loc.date = datetime(2020, 1, 6)
    /\ loc.expected = 280 * Unit
    /\ loc.noise = -5 * 12 * Unit
    /\ data[Len(data)].avg_ridership = 2200

\* ---- the confounder functions, on every date of the range (FnSpec)

\* C6: apply_competitor_effect is 0 on every date before the launch date
\* (2023-07-01); on or after it, with w the weeks elapsed since the launch, it
\* is max_effect * w / ramp_weeks while w <= ramp_weeks (8) and max_effect for
\* every w > ramp_weeks; so over increasing dates its magnitude never
\* decreases, never exceeds |max_effect|, and stays at max_effect once the
\* ramp window has passed.
C6_CompetitorRamp ==
    fnOut.called =>
        LET days == fnOut.date - datetime(2023, 7, 1)
            max_effect == confounders.competitor_launch.effect[fnRoute] * Unit
        IN  /\ days < 0 => fnOut.competitor = 0
            /\ (days >= 0 /\ days <= 7 * 8) =>
                  7 * 8 * fnOut.competitor = max_effect * days
            /\ days > 7 * 8 => fnOut.competitor = max_effect
            /\ Abs(fnOut.competitor) <= Abs(max_effect)
            /\ fnPrev.called =>
                  /\ fnPrev.date < fnOut.date
                  /\ Abs(fnPrev.competitor) <= Abs(fnOut.competitor)

\* Half way up the ramp (4 weeks after the launch) Downtown has lost half of
\* its 15 riders, more than the day before.
C6_Witness ==
    /\ fnOut.called
    /\ fnPrev.called
    /\ fnRoute = "Downtown"
    /\ fnOut.date = datetime(2023, 7, 29)
    /\ 2 * fnOut.competitor = -15 * Unit
    /\ Abs(fnPrev.competitor) < Abs(fnOut.competitor)

\* C7: apply_severe_winter_effect is a step function: the same flat per-route
\* offset on every date of the window that starts on 2023-01-01 and lasts 8
\* weeks, 0 on every date outside it; the weekly grid dates that receive the
\* offset are 8 per route, the configured duration.
C7_SevereWinterStep ==
    fnOut.called =>
        LET winter_start == datetime(2023, 1, 1)
            offset == confounders.severe_winter.effect[fnRoute] * Unit
            inside == winter_start <= fnOut.date /\ fnOut.date <= winter_start + 7 * 8
        IN  /\ offset < 0
            /\ fnOut.winter = IF inside THEN offset ELSE 0
            /\ Cardinality({k \in 1..GridCount :
                    apply_severe_winter_effect(GridDate(k), fnRoute) # 0})
                  = confounders.severe_winter.duration_weeks
            /\ confounders.severe_winter.duration_weeks = 8

\* The last grid date of the window, Monday 2023-02-20, still carries the
\* Downtown offset of -20; the day before carried it too.
C7_Witness ==
    /\ fnOut.called
    /\ fnPrev.called
    /\ fnRoute = "Downtown"
    /\ fnOut.date = datetime(2023, 2, 20)
    /\ \E k \in 1..GridCount : GridDate(k) = fnOut.date
    /\ fnOut.winter = -20 * Unit
    /\ fnPrev.winter = -20 * Unit

\* Limb amounts: order, and distance within tol * 10^-18.
LimbLeq(x, y) ==
    \/ x[1] < y[1]
    \/ x[1] = y[1] /\ x[2] < y[2]
    \/ x[1] = y[1] /\ x[2] = y[2] /\ x[3] <= y[3]

LimbNear(x, y, tol) ==
    LET hi == (x[1] - y[1]) * 1000000 + (x[2] - y[2])
    IN  /\ Abs(x[1] - y[1]) <= 1
        /\ Abs(hi) <= 1
        /\ Abs(hi * 1000000 + (x[3] - y[3])) <= tol

GasSpikeStart == datetime(2022, 3, 1)

GasSpikeEnd == datetime(2022, 3, 1) + 7 * 16

GasPeak(route) == <<confounders.gas_spike.peak_effect[route] * 1000000, 0, 0>>

\* The value at as many days before the end of the window as `date` is after
\* its start.
GasMirror(date, route) ==
    apply_gas_spike_effect(GasSpikeEnd - (date - GasSpikeStart), route)

\* C8 as stated: apply_gas_spike_effect is 0 outside the window [2022-03-01,
\* 2022-03-01 + 16 weeks]; inside it is symmetric about the midpoint (the value
\* d days after the start equals the value d days before the end), 0 at both
\* ends, the peak at the midpoint, and never above the peak.
C8_AsStated ==
    fnOut.called =>
        LET d == fnOut.date
            inside == GasSpikeStart <= d /\ d <= GasSpikeEnd
        IN  /\ ~inside => fnOut.gas = <<0, 0, 0>>
            /\ inside => fnOut.gas = GasMirror(d, fnRoute)
            /\ (d = GasSpikeStart \/ d = GasSpikeEnd) => fnOut.gas = <<0, 0, 0>>
            /\ d = GasSpikeStart + 7 * 8 => fnOut.gas = GasPeak(fnRoute)
            /\ LimbLeq(fnOut.gas, GasPeak(fnRoute))

\* C8 (amended): apply_gas_spike_effect is 0 outside the window; inside it is
\* the double-precision value of peak * sin(progress * pi): 0 at the start of
\* the window, positive everywhere else in it, rising to exactly the peak at
\* the midpoint and falling after it, never above the peak; at the end of the
\* window it is not 0 but peak * sin(pi) as a double, a positive amount below
\* 10^-14; and it is symmetric about the midpoint only up to that rounding: the
\* value d days after the start and the value d days before the end differ by
\* less than 10^-14.
C8_GasSpikeBell ==
    fnOut.called =>
        LET d == fnOut.date
            inside == GasSpikeStart <= d /\ d <= GasSpikeEnd
            middle == GasSpikeStart + 7 * 8
            zero == <<0, 0, 0>>
        IN  /\ ~inside => fnOut.gas = zero
            /\ d = GasSpikeStart => fnOut.gas = zero
            /\ (inside /\ d # GasSpikeStart) =>
                  fnOut.gas # zero /\ LimbLeq(zero, fnOut.gas)
            /\ d = GasSpikeEnd => LimbNear(fnOut.gas, zero, 10000)
            /\ inside => LimbNear(fnOut.gas, GasMirror(d, fnRoute), 10000)
            /\ d = middle => fnOut.gas = GasPeak(fnRoute)
            /\ LimbLeq(fnOut.gas, GasPeak(fnRoute))
            /\ (fnPrev.called /\ GasSpikeStart < d /\ d <= middle) =>
                  LimbLeq(fnPrev.gas, fnOut.gas) /\ fnPrev.gas # fnOut.gas
            /\ (fnPrev.called /\ middle < d /\ d <= GasSpikeEnd) =>
                  LimbLeq(fnOut.gas, fnPrev.gas) /\ fnPrev.gas # fnOut.gas

\* The end of the window: the Suburban value is small but not 0, while the
\* value at the start, its mirror image, is 0.
C8_Witness ==
    /\ fnOut.called
    /\ fnPrev.called
    /\ fnRoute = "Suburban"
    /\ fnOut.date = GasSpikeEnd
    /\ fnOut.gas # <<0, 0, 0>>
    /\ GasMirror(fnOut.date, fnRoute) = <<0, 0, 0>>
    /\ LimbNear(fnOut.gas, <<0, 0, 0>>, 10000)

====
